---- MODULE Spec2Model ----
(***************************************************************************)
(* Checkpointed task execution of giant-ai: the CheckpointManager of       *)
(* src/agent/checkpoint.py (git-stash and file-copy snapshots, restore,    *)
(* list, cleanup) and the AgentMode of src/agent/agent.py (execute_task,   *)
(* batch_execute, session log).                                            *)
(*                                                                         *)
(* The project tree is a function from a few paths to a content number     *)
(* (0 = the path does not exist).  "a" is a top-level file, the one        *)
(* committed at HEAD when the project is a git repository; "d/x" and "d/y" *)
(* are files inside the top-level directory "d", which git does not know.  *)
(* git is modelled by what `git stash push`, `git stash list` and          *)
(* `git stash pop` do to the working tree and the stash list.              *)
(***************************************************************************)
EXTENDS Integers, Sequences, FiniteSets, TLC

\* ------------------------------------------------------------------ bounds
MaxSec     == 1     \* wall-clock seconds 0..MaxSec
MaxStamp   == 2     \* checkpoints made by hand
MaxEdits   == 1     \* changes made to project files, by hand or by a provider
MaxStash   == 2     \* stash entries beyond which nothing more is restored
MaxCalls   == 2     \* execute_task calls, alone or in a batch

\* ------------------------------------------------------------ project tree
Paths    == {"a", "d/x", "d/y"}
Tracked  == {"a"}
DirNames == {"d"}
Absent   == 0
\* "a" is absent, as committed, or changed; of the files in "d" only whether
\* they exist is kept.
Contents(p) == IF p = "a" THEN {0, 1, 2} ELSE {0, 1}
Trees       == {t \in [Paths -> {0, 1, 2}] : \A p \in Paths : t[p] \in Contents(p)}

\* Top-level directory entry a path lives in (Path.iterdir() of the project).
Top(p) == IF p \in {"d/x", "d/y"} THEN "d" ELSE p

\* Names _backup_project_files skips.
Excluded == {".giant-ai", "node_modules", ".venv", "__pycache__"}

\* Content of the tracked files at HEAD.
HeadTree == [p \in Tracked |-> 1]

\* Top-level entries that exist in a tree.
TopEntries(t) == {Top(p) : p \in {q \in Paths : t[q] # Absent}}

\* --------------------------------------------------------- files and ids
NoFile == [nofile |-> TRUE]      \* a file or directory that does not exist
NoLog  == [exists |-> FALSE, lines |-> <<>>]   \* no agent_sessions.jsonl
NoId   == -1                     \* Python None where an id is expected
Ids    == 0..MaxSec

\* datetime.now().strftime("%Y%m%d_%H%M%S"): the reading cut to the second.
\* A reading is <<second, stamp>>; the fixed-width digits of the id order
\* like the number of the second.
CheckpointId(now) == now[1]

\* f"AI Agent Checkpoint: {checkpoint_id}" and the restore's own message.
StashMsg(id) == <<"AI Agent Checkpoint: ", id>>
TempMsg      == <<"Temp stash before restore">>

\* datetime.now().isoformat() strings compare like the readings themselves.
TimestampLess(x, y) == x[1] < y[1] \/ (x[1] = y[1] /\ x[2] < y[2])

NoMetaFiles == [i \in Ids |-> NoFile]
NoBackups   == [i \in Ids |-> NoFile]
EmptyBackup == [p \in Paths |-> Absent]

VARIABLES
    isGit,      \* project_dir/.git is a directory
    ignored,    \* .giant-ai is matched by the repository's .gitignore
    options,    \* the options dictionary the caller passes in this run
    store,      \* what is on disk, see InitStore
    sec,        \* current wall-clock second
    stamp,      \* number of clock readings taken so far
    sessionLog, \* AgentMode.session_log
    pc,         \* position of the single thread of control
    frame,      \* locals of the running execute_task
    batch,      \* locals of the running batch_execute
    last,       \* the operation that completed last and what it returned
    cp,         \* the most recent create_checkpoint: the tree it found, its id
    edits,      \* number of changes made to project files so far
    calls,      \* number of execute_task calls begun so far
    workers,    \* the processes that use the project's checkpoints at once
    factory     \* LLMProviderFactory._providers, agent.yml, AgentMode.provider

env   == <<isGit, ignored, options, factory>>
agent == <<sessionLog, pc, frame, batch, calls>>
vars  == <<isGit, ignored, options, store, sec, stamp, sessionLog, pc, frame, batch,
           last, cp, edits, calls, workers, factory>>

\* Disk state right after CheckpointManager.__init__ in a fresh project.
InitStore(t) ==
    [tree    |-> t,
     stash   |-> <<>>,           \* stash@{0} is element 1
     meta    |-> NoMetaFiles,    \* .giant-ai/checkpoints/<id>.json
     backups |-> NoBackups,      \* .giant-ai/checkpoints/<id>/
     logFile |-> NoLog,          \* .giant-ai/agent_sessions.jsonl
     cfgDir  |-> TRUE,           \* .giant-ai exists
     cpDir   |-> TRUE,           \* .giant-ai/checkpoints exists
     hasHead |-> TRUE]           \* the repository, if any, has a commit

\* ---------------------------------------------------------------- git
TrackedDirty(t)     == \E p \in Tracked : t[p] # HeadTree[p]
UntrackedPresent(t) == \E p \in Paths \ Tracked : t[p] # Absent
GiantFiles(st)      == (\E i \in Ids : st.meta[i] # NoFile) \/ st.logFile.exists

\* `git stash push -m msg [--include-untracked]`.  Without local changes it
\* saves nothing, and in a repository without a commit it fails ("You do not
\* have the initial commit yet").  With --include-untracked it also takes every untracked
\* file that is not ignored and cleans the untracked directories away,
\* .giant-ai included unless that is ignored.
GitStashPush(st, msg, untracked) ==
    LET sweep   == untracked /\ ~ignored
        changes == \/ TrackedDirty(st.tree)
                   \/ untracked /\ UntrackedPresent(st.tree)
                   \/ sweep /\ GiantFiles(st)
        entry   == [msg       |-> msg,
                    tracked   |-> [p \in Tracked |-> st.tree[p]],
                    untracked |-> [p \in Paths \ Tracked |->
                                     IF untracked THEN st.tree[p] ELSE Absent],
                    meta      |-> IF sweep THEN st.meta ELSE NoMetaFiles,
                    logFile   |-> IF sweep THEN st.logFile ELSE NoLog]
    IN  IF ~isGit \/ ~st.hasHead \/ ~changes THEN st
        ELSE [st EXCEPT
                !.tree    = [p \in Paths |->
                               IF p \in Tracked THEN HeadTree[p]
                               ELSE IF untracked THEN Absent ELSE st.tree[p]],
                !.stash   = <<entry>> \o st.stash,
                !.meta    = IF sweep THEN NoMetaFiles ELSE st.meta,
                !.logFile = IF sweep THEN NoLog ELSE st.logFile,
                !.cfgDir  = IF sweep THEN FALSE ELSE st.cfgDir,
                !.cpDir   = IF sweep THEN FALSE ELSE st.cpDir]

\* An untracked file of the stash entry that already exists in the tree:
\* "already exists, no checkout"; the entry is then kept.
PopConflict(st, e) ==
    \/ \E p \in Paths \ Tracked : e.untracked[p] # Absent /\ st.tree[p] # Absent
    \/ \E i \in Ids : e.meta[i] # NoFile /\ st.meta[i] # NoFile
    \/ e.logFile.exists /\ st.logFile.exists

RemoveAt(s, i) == [j \in 1..(Len(s) - 1) |-> IF j < i THEN s[j] ELSE s[j + 1]]

\* `git stash pop stash@{i-1}`: the tracked changes are applied to the clean
\* tracked files, the untracked files are written where no file is in the
\* way, and the entry is dropped unless a file was in the way.
GitStashPop(st, i) ==
    LET e == st.stash[i]
        hasMeta == \E k \in Ids : e.meta[k] # NoFile
    IN  [st EXCEPT
           !.tree    = [p \in Paths |->
                          IF p \in Tracked
                          THEN IF st.tree[p] = HeadTree[p] THEN e.tracked[p] ELSE st.tree[p]
                          ELSE IF st.tree[p] = Absent THEN e.untracked[p] ELSE st.tree[p]],
           !.meta    = [k \in Ids |->
                          IF st.meta[k] = NoFile THEN e.meta[k] ELSE st.meta[k]],
           !.logFile = IF st.logFile.exists THEN st.logFile ELSE e.logFile,
           !.cfgDir  = st.cfgDir \/ hasMeta \/ e.logFile.exists,
           !.cpDir   = st.cpDir \/ hasMeta,
           !.stash   = IF PopConflict(st, e) THEN st.stash ELSE RemoveAt(st.stash, i)]

\* ------------------------------------------------------ CheckpointManager
\* metadata_path.exists(): the record's file is there.
MetadataExists(st, id) == id \in Ids /\ st.meta[id] # NoFile

\* _backup_project_files into a backup directory that holds `old`.  copy2
\* overwrites a file; copytree raises FileExistsError when the directory is
\* already in the backup.  iterdir() yields the entries in no fixed order,
\* so when copytree raises any of the other entries may have been copied.
BackupProjectFiles(t, old) ==
    LET items  == TopEntries(t) \ Excluded
        clash  == {n \in items : n \in DirNames /\ n \in TopEntries(old)}
        Copy(done) == [p \in Paths |-> IF Top(p) \in done THEN t[p] ELSE old[p]]
    IN  IF clash = {}
        THEN {[exc |-> "none", dir |-> Copy(items)]}
        ELSE {[exc |-> "FileExistsError", dir |-> Copy(done)] :
                 done \in SUBSET (items \ clash)}

\* The lines `git diff --name-only` writes: the tracked files whose content
\* differs from the index, none in a repository without a commit.
GitDiffNames(st) ==
    IF st.hasHead /\ st.tree["a"] # HeadTree["a"] THEN <<"a">> ELSE <<>>

\* result.stdout.strip().split("\n") for output made of these lines: the
\* lines, but one empty string when there is no output ("".split("\n") is
\* [""]).
StripSplit(lines) == IF lines = <<>> THEN <<"">> ELSE lines

\* metadata["modified_files"] as lines 37-50 leave it.
ModifiedFiles(st) == IF isGit THEN StripSplit(GitDiffNames(st)) ELSE <<>>

\* The "modified_files" number in a summary of list_checkpoints.
ModifiedCount(st, id) == Len(st.meta[id].modified_files)

\* create_checkpoint at clock reading `now`: the outcomes it can have.
CreateCheckpoint(st, now) ==
    LET id == CheckpointId(now)
    IN  IF isGit
        THEN LET s1  == GitStashPush(st, StashMsg(id), TRUE)
                 rec == [id |-> id, timestamp |-> now, git_stash |-> StashMsg(id),
                         modified_files |-> ModifiedFiles(st)]
             IN  IF s1.cpDir
                 THEN {[st  |-> [s1 EXCEPT !.meta[id] = rec],
                        ret |-> id, exc |-> "none"]}
                 ELSE {[st |-> s1, ret |-> NoId, exc |-> "FileNotFoundError"]}
        ELSE LET old == IF st.backups[id] = NoFile THEN EmptyBackup ELSE st.backups[id]
                 rec == [id |-> id, timestamp |-> now, backup_path |-> id,
                         modified_files |-> ModifiedFiles(st)]
             IN  {[st  |-> [st EXCEPT
                              !.backups[id] = b.dir,
                              !.cfgDir = TRUE,
                              !.cpDir  = TRUE,
                              !.meta[id] = IF b.exc = "none" THEN rec ELSE st.meta[id]],
                   ret |-> IF b.exc = "none" THEN id ELSE NoId,
                   exc |-> b.exc] : b \in BackupProjectFiles(st.tree, old)}

\* _restore_project_files: every entry of the backup is copied back, a
\* directory after the project's directory of that name was removed.
RestoreProjectFiles(t, backup) ==
    [p \in Paths |-> IF Top(p) \in TopEntries(backup) THEN backup[p] ELSE t[p]]

\* _restore_project_files when the project has a regular file where the
\* backup has a directory: shutil.rmtree(dest) raises NotADirectoryError.
\* iterdir() yields the entries in no fixed order, so any of the other
\* entries may have been copied back before.
RestoreOntoFile(t, backup) ==
    {[p \in Paths |-> IF Top(p) \in done THEN backup[p] ELSE t[p]] :
        done \in SUBSET (TopEntries(backup) \ DirNames)}

\* Whether restore_checkpoint(id) runs into that file.
RestoreRaises(st, id, dfile) ==
    /\ dfile
    /\ MetadataExists(st, id)
    /\ "backup_path" \in DOMAIN st.meta[id]
    /\ st.backups[st.meta[id].backup_path] # NoFile
    /\ TopEntries(st.backups[st.meta[id].backup_path]) \cap DirNames # {}

\* The stash entries whose `git stash list` line contains the message.
Matching(stash, msg) == {i \in 1..Len(stash) : stash[i].msg = msg}

\* A restore that stashes the current changes before it looks for the
\* metadata file.
RestoreStashesFirst(st) == [st |-> GitStashPush(st, TempMsg, FALSE), ret |-> FALSE]

\* restore_checkpoint for an id without a metadata file.
RestoreNotFound(st) == [st |-> st, ret |-> FALSE]

\* A restore that takes the stash path when the project is a git repository
\* now and the file-copy path when it is not, whatever the metadata records.
RestoreByCurrentVcs(st, id) ==
    LET m == st.meta[id]
    IN  IF isGit
        THEN LET s1  == GitStashPush(st, TempMsg, FALSE)
                 hit == Matching(s1.stash, StashMsg(id))
             IN  IF hit = {}
                 THEN [st |-> s1, ret |-> TRUE]
                 ELSE [st  |-> GitStashPop(s1, CHOOSE i \in hit : \A j \in hit : i <= j),
                       ret |-> TRUE]
        ELSE IF st.backups[id] # NoFile
             THEN [st  |-> [st EXCEPT !.tree = RestoreProjectFiles(st.tree, st.backups[id])],
                   ret |-> TRUE]
             ELSE [st |-> st, ret |-> TRUE]

\* A restore that throws the current changes of the tracked files away
\* (`git checkout .`) instead of stashing them.
RestoreResetsFirst(st, id) ==
    LET m == st.meta[id]
    IN  IF "git_stash" \in DOMAIN m
        THEN LET s1  == IF isGit /\ st.hasHead
                        THEN [st EXCEPT !.tree = [p \in Paths |->
                                 IF p \in Tracked THEN HeadTree[p] ELSE st.tree[p]]]
                        ELSE st
                 hit == IF isGit THEN Matching(s1.stash, m.git_stash) ELSE {}
             IN  IF hit = {}
                 THEN [st |-> s1, ret |-> TRUE]
                 ELSE [st  |-> GitStashPop(s1, CHOOSE i \in hit : \A j \in hit : i <= j),
                       ret |-> TRUE]
        ELSE IF st.backups[m.backup_path] # NoFile
             THEN [st  |-> [st EXCEPT !.tree =
                              RestoreProjectFiles(st.tree, st.backups[m.backup_path])],
                   ret |-> TRUE]
             ELSE [st |-> st, ret |-> TRUE]

\* restore_checkpoint for an id whose metadata file exists.
RestoreFound(st, id) ==
    LET m == st.meta[id]
    IN  IF "git_stash" \in DOMAIN m
        THEN LET s1 == GitStashPush(st, TempMsg, FALSE)
                 hit == IF isGit THEN Matching(s1.stash, m.git_stash) ELSE {}
             IN  IF hit = {}
                 THEN [st |-> s1, ret |-> TRUE]
                 ELSE [st  |-> GitStashPop(s1, CHOOSE i \in hit : \A j \in hit : i <= j),
                       ret |-> TRUE]
        ELSE IF st.backups[m.backup_path] # NoFile
             THEN [st  |-> [st EXCEPT !.tree =
                              RestoreProjectFiles(st.tree, st.backups[m.backup_path])],
                   ret |-> TRUE]
             ELSE [st |-> st, ret |-> TRUE]

RestoreCheckpoint(st, id) ==
    IF ~MetadataExists(st, id) THEN RestoreNotFound(st) ELSE RestoreFound(st, id)

\* The lines restore_checkpoint prints (lines 78 and 113); git's own output
\* goes to the terminal unread.
RestoreOutput(st, id) ==
    IF ~MetadataExists(st, id) THEN {"Checkpoint not found"}
    ELSE {"Restored checkpoint"}

\* A listing sorted without reverse=True: oldest timestamp first.
ListOldestFirst(st) ==
    LET S == {i \in Ids : st.meta[i] # NoFile}
    IN  CHOOSE s \in [1..Cardinality(S) -> S] :
            /\ \A i, j \in 1..Cardinality(S) : i # j => s[i] # s[j]
            /\ \A i, j \in 1..Cardinality(S) :
                   i < j => ~TimestampLess(st.meta[s[j]].timestamp, st.meta[s[i]].timestamp)

\* list_checkpoints: the ids of the metadata files, newest timestamp first.
ListCheckpoints(st) ==
    LET S == {i \in Ids : st.meta[i] # NoFile}
    IN  CHOOSE s \in [1..Cardinality(S) -> S] :
            /\ \A i, j \in 1..Cardinality(S) : i # j => s[i] # s[j]
            /\ \A i, j \in 1..Cardinality(S) :
                   i < j => ~TimestampLess(st.meta[s[i]].timestamp, st.meta[s[j]].timestamp)

\* A removal that also drops the stash entries labelled with the id.
RemoveDropsStash(st, id) ==
    IF ~MetadataExists(st, id) THEN st
    ELSE LET m    == st.meta[id]
             keep == {i \in 1..Len(st.stash) : st.stash[i].msg # StashMsg(id)}
             Pick[n \in 0..Len(st.stash)] ==
                 IF n = 0 THEN <<>>
                 ELSE IF n \in keep THEN Append(Pick[n - 1], st.stash[n])
                 ELSE Pick[n - 1]
         IN  [st EXCEPT
                !.backups = IF "backup_path" \in DOMAIN m
                            THEN [st.backups EXCEPT ![m.backup_path] = NoFile]
                            ELSE st.backups,
                !.stash = Pick[Len(st.stash)],
                !.meta[id] = NoFile]

\* _remove_checkpoint.
RemoveCheckpoint(st, id) ==
    IF ~MetadataExists(st, id) THEN st
    ELSE LET m == st.meta[id]
         IN  [st EXCEPT
                !.backups = IF "backup_path" \in DOMAIN m
                            THEN [st.backups EXCEPT ![m.backup_path] = NoFile]
                            ELSE st.backups,
                !.meta[id] = NoFile]

RECURSIVE RemoveAll(_, _)
RemoveAll(st, ids) ==
    IF ids = <<>> THEN st ELSE RemoveAll(RemoveCheckpoint(st, ids[1]), Tail(ids))

\* A cleanup that slices the list from the wrong end and keeps the oldest.
CleanupKeepsOldest(st, keep_count) ==
    LET checkpoints == ListCheckpoints(st)
    IN  IF Len(checkpoints) > keep_count
        THEN RemoveAll(st, SubSeq(checkpoints, 1, Len(checkpoints) - keep_count))
        ELSE st

\* cleanup_old_checkpoints(keep_count).
CleanupOldCheckpoints(st, keep_count) ==
    LET checkpoints == ListCheckpoints(st)
    IN  IF Len(checkpoints) > keep_count
        THEN RemoveAll(st, SubSeq(checkpoints, keep_count + 1, Len(checkpoints)))
        ELSE st

\* ------------------------------------------------- bookkeeping of the run
\* What the last completed call was: op, the id it was given or returned,
\* its boolean result, the exception that ended it, whether it was a restore
\* of the checkpoint created by the call right before it, and how many
\* checkpoints were listed when it began.
Done(op, id, ok, exc, imm, n) ==
    [op |-> op, id |-> id, ok |-> ok, exc |-> exc, imm |-> imm, n |-> n]

\* Number of metadata files.
Count(st) == Cardinality({i \in Ids : st.meta[i] # NoFile})

\* The clock readings a call made now can get: the second of the previous
\* reading or the one after it, and a stamp later than every earlier one.
Readings == {<<s, stamp>> : s \in {sec, sec + 1} \cap 0..MaxSec}

NoCp    == [tree |-> [p \in Paths |-> Absent], id |-> NoId, fresh |-> FALSE,
            prev |-> NoId]
NoFrame == [nofile |-> TRUE]

\* The record of a create_checkpoint call that found tree t; prev is the id
\* returned by the create_checkpoint call made right before it, if any.
Created(t, o) == [tree |-> t, id |-> o.ret, fresh |-> o.exc = "none",
                  prev |-> IF cp.fresh THEN cp.id ELSE NoId]

\* ------------------------------------------------ operator at the prompt
\* interactive_mode, "checkpoint": create_checkpoint(desc).
Checkpoint ==
    /\ pc = "idle"
    /\ stamp < MaxStamp
    /\ \E now \in Readings : \E o \in CreateCheckpoint(store, now) :
          /\ store' = o.st
          /\ sec'   = now[1]
          /\ last'  = Done("create", o.ret, o.exc = "none", o.exc, FALSE, Count(store))
          /\ cp'    = Created(store.tree, o)
    /\ stamp' = stamp + 1
    /\ UNCHANGED <<env, workers, agent, edits>>

\* interactive_mode, "restore <id>": restore_checkpoint(id).
Restore(id) ==
    /\ pc = "idle"
    /\ Len(store.stash) < MaxStash
    /\ LET r == RestoreCheckpoint(store, id)
       IN  /\ store' = r.st
           /\ last'  = Done("restore", id, r.ret, "none", cp.fresh /\ cp.id = id,
                            Count(store))
    /\ cp' = IF cp.fresh /\ cp.id = id THEN [cp EXCEPT !.fresh = FALSE] ELSE NoCp
    /\ UNCHANGED <<env, workers, agent, sec, stamp, edits>>

\* cleanup_old_checkpoints(keep_count).
Cleanup(keep_count) ==
    /\ pc = "idle"
    /\ store' = CleanupOldCheckpoints(store, keep_count)
    /\ last'  = Done("cleanup", keep_count, TRUE, "none", FALSE, Count(store))
    /\ cp' = NoCp
    /\ UNCHANGED <<env, workers, agent, sec, stamp, edits>>

\* The operator changes, creates or deletes a project file.
Edit(p, c) ==
    /\ pc = "idle"
    /\ edits < MaxEdits
    /\ store.tree[p] # c
    /\ store' = [store EXCEPT !.tree[p] = c]
    /\ edits' = edits + 1
    /\ last'  = Done("edit", NoId, TRUE, "none", FALSE, 0)
    /\ cp' = NoCp
    /\ UNCHANGED <<env, workers, agent, sec, stamp>>

\* The operator deletes the .git directory; the stash list goes with it.
\* _is_git_repo answers False from now on.
GitRemoved ==
    /\ pc = "idle"
    /\ isGit
    /\ isGit' = FALSE
    /\ store' = [store EXCEPT !.stash = <<>>]
    /\ last'  = Done("git-removed", NoId, TRUE, "none", FALSE, 0)
    /\ cp' = NoCp
    /\ UNCHANGED <<ignored, options, factory, workers, agent, sec, stamp, edits>>

\* The operator runs `git init` and commits the tracked files, which have the
\* content that the model takes as committed.  _is_git_repo answers True
\* from now on.
GitAdded ==
    /\ pc = "idle"
    /\ ~isGit
    /\ \A p \in Tracked : store.tree[p] = HeadTree[p]
    /\ isGit' = TRUE
    /\ store' = [store EXCEPT !.hasHead = TRUE]
    /\ last'  = Done("git-added", NoId, TRUE, "none", FALSE, 0)
    /\ cp' = NoCp
    /\ UNCHANGED <<ignored, options, factory, workers, agent, sec, stamp, edits>>

\* A new process is started on the project: AgentMode.__init__ and with it
\* CheckpointManager.__init__, which makes the checkpoint directory.
Construct ==
    /\ pc = "idle"
    /\ ~store.cpDir \/ sessionLog # <<>>
    /\ store' = [store EXCEPT !.cfgDir = TRUE, !.cpDir = TRUE]
    /\ sessionLog' = <<>>
    /\ last' = Done("construct", NoId, TRUE, "none", FALSE, 0)
    /\ UNCHANGED <<env, workers, sec, stamp, pc, frame, batch, calls, cp, edits>>

\* ------------------------------------------------------------- options
OptionKeys == {"checkpoint", "checkpoint_after", "auto_accept", "continue_session",
               "auto_restore_on_failure", "continue_on_failure"}

\* options.get(key, default).
Get(o, k, d) == IF k \in DOMAIN o THEN o[k] ELSE d

\* The dictionaries over some keys in which every key present carries the
\* value that is not its default.
Dicts(keys) ==
    {o \in UNION {[D -> BOOLEAN] : D \in SUBSET keys} :
        \A k \in DOMAIN o : o[k] = (k # "checkpoint")}

\* Options a single task is run with, and options a batch is run with.
TaskOptions ==
    Dicts({"checkpoint", "checkpoint_after", "auto_restore_on_failure"})
        \cup {[auto_accept |-> TRUE], [continue_session |-> TRUE],
              [continue_session |-> FALSE], [checkpoint |-> TRUE],
              [auto_accept |-> TRUE, continue_session |-> TRUE],
              [auto_accept |-> FALSE, continue_session |-> TRUE]}
BatchOptions ==
    TaskOptions \cup {o \in Dicts({"checkpoint", "auto_restore_on_failure",
                                   "continue_on_failure"}) :
                         "continue_on_failure" \in DOMAIN o}

\* ------------------------------------------------------------- provider
\* What provider.execute_agent_task can do: return a result that reports
\* success, return one that reports failure, raise (subprocess.run raises
\* when the `claude` command cannot be started), or be interrupted by the
\* user while it waits for the command (KeyboardInterrupt).
ProviderOutcomes == {"success", "failure", "raise", "interrupt"}

\* The exception an outcome leaves execute_agent_task with.
ProviderException(out) ==
    IF out = "raise" THEN "ProviderError"
    ELSE IF out = "interrupt" THEN "KeyboardInterrupt"
    ELSE "none"

\* The project trees a provider can leave behind: the tree as it was, or with
\* one file changed, created or deleted.
ProviderEffects(t) ==
    {t} \cup (IF edits < MaxEdits
              THEN {[t EXCEPT ![p] = c] : p \in Paths, c \in {0, 1, 2}} \cap Trees
              ELSE {})

\* Besides changing a file, a provider that has emptied or found no directory
\* "d" can leave a regular file of that name (`rm -r d; echo > d`).
ProviderLeavesFile(t) ==
    IF \A p \in Paths : Top(p) \in DirNames => t[p] = Absent
    THEN BOOLEAN ELSE {FALSE}

\* A command line that passes neither flag on.
ClaudeCommandBare(prompt, context) == <<"claude", "--print", prompt>>

\* ClaudeCodeProvider.execute_agent_task, lines 45-53: the command line.
ClaudeCommand(prompt, context) ==
    <<"claude">>
        \o (IF context.auto_accept THEN <<"--auto-accept">> ELSE <<>>)
        \o (IF context.continue_session THEN <<"--continue">> ELSE <<>>)
        \o <<"--print", prompt>>

\* ---------------------------------------------------------- execute_task
NoResult  == [nofile |-> TRUE]
NoContext == [nofile |-> TRUE]
NoCmd     == <<>>

\* _build_agent_prompt: the template with the task text filled in.
BuildAgentPrompt(task) == <<"TASK: ", task>>

\* The locals of an execute_task call as it begins; snap is the project tree
\* and log0 the length of session_log at that moment.
NewFrame(task, opts, caller) ==
    [task          |-> task,
     options       |-> opts,
     caller        |-> caller,
     checkpoint_id |-> NoId,
     context       |-> NoContext,
     result        |-> NoResult,
     restored      |-> NoId,
     restores      |-> 0,              \* restore_checkpoint calls made
     provider_calls |-> 0,             \* execute_agent_task calls made
     cmd           |-> NoCmd,          \* command line the provider ran
     snap          |-> store.tree,
     found         |-> store.tree,     \* the tree as the provider found it
     listed0       |-> Count(store),
     log0          |-> Len(sessionLog),
     dfile         |-> FALSE,          \* the provider left a regular file "d"
     before        |-> NoFrame]        \* the caller's notes on its last call

\* task_context as built after the pre-task checkpoint.
TaskContext(f, checkpoint_id) ==
    [task             |-> f.task,
     checkpoint_id    |-> checkpoint_id,
     auto_accept      |-> Get(f.options, "auto_accept", FALSE),
     continue_session |-> Get(f.options, "continue_session", FALSE)]

\* session_entry of _log_session.
SessionEntry(f) ==
    [task |-> f.task, success |-> f.result.success, checkpoint_id |-> f.checkpoint_id]

\* A create_checkpoint call made at reading `now` with outcome o.
Creates(now, o) ==
    /\ store' = o.st
    /\ sec'   = now[1]
    /\ stamp' = stamp + 1
    /\ cp'    = Created(store.tree, o)

\* An exception leaves execute_task, and batch_execute when that called it.
Raises(op, exc) ==
    /\ pc' = "idle"
    /\ last' = Done(op, NoId, FALSE, exc, FALSE, 0)

Running == IF frame.caller = "batch" THEN "batch" ELSE "task"

\* In a batch, one more create_checkpoint call is counted.
CountCreate(b) == IF pc = "b_checkpoint" \/ frame.caller = "batch"
                  THEN [b EXCEPT !.creates = @ + 1] ELSE b

\* interactive_mode, "task ...": execute_task(task, options) is called.
TaskStart ==
    /\ pc = "idle"
    /\ calls < MaxCalls
    /\ calls' = calls + 1
    /\ frame' = NewFrame(calls, options, "prompt")
    /\ pc' = "et_checkpoint"
    /\ UNCHANGED <<env, workers, store, sec, stamp, sessionLog, batch, last, cp, edits>>

\* What a finished execute_task call did besides running the provider.
Outcome(f) == [checkpointed |-> f.checkpoint_id # NoId, restored |-> f.restores > 0]

\* interactive_mode, the same "task ..." line typed again after `auto-accept`
\* or other settings were changed: execute_task(task, o) for the task of the
\* call that has just returned. The caller keeps the result it got back.
TaskAgain(o) ==
    /\ pc = "idle"
    /\ calls < MaxCalls
    /\ frame # NoFrame /\ frame.caller = "prompt"
    /\ last.op = "task" /\ last.exc = "none"
    /\ calls' = calls + 1
    /\ frame' = [NewFrame(frame.task, o, "prompt") EXCEPT
                    !.before = [result |-> frame.result, outcome |-> Outcome(frame)]]
    /\ pc' = "et_checkpoint"
    /\ UNCHANGED <<env, workers, store, sec, stamp, sessionLog, batch, last, cp, edits>>

\* execute_task, lines 38-52: the pre-task checkpoint and the task context.
TaskCheckpoint ==
    /\ pc = "et_checkpoint"
    /\ IF Get(frame.options, "checkpoint", TRUE)
       THEN \E now \in Readings : \E o \in CreateCheckpoint(store, now) :
              /\ Creates(now, o)
              /\ batch' = CountCreate(batch)
              /\ IF o.exc = "none"
                 THEN /\ frame' = [frame EXCEPT !.checkpoint_id = o.ret,
                                                !.context = TaskContext(frame, o.ret)]
                      /\ pc' = "et_provider"
                      /\ UNCHANGED last
                 ELSE /\ Raises(Running, o.exc)
                      /\ UNCHANGED frame
       ELSE /\ frame' = [frame EXCEPT !.context = TaskContext(frame, NoId)]
            /\ pc' = "et_provider"
            /\ UNCHANGED <<store, sec, stamp, cp, last, batch>>
    /\ UNCHANGED <<env, workers, sessionLog, edits, calls>>

\* execute_task, line 62: the provider runs, changes files and answers.
TaskProvider ==
    /\ pc = "et_provider"
    /\ \E t \in ProviderEffects(store.tree), out \in ProviderOutcomes :
          /\ store' = [store EXCEPT !.tree = t]
          /\ edits' = IF t = store.tree THEN edits ELSE edits + 1
          /\ batch' = IF frame.caller = "batch"
                      THEN [batch EXCEPT !.invoked =
                              Append(@, [task |-> frame.task, outcome |-> out])]
                      ELSE batch
          /\ \E f \in ProviderLeavesFile(t) : frame' = [frame EXCEPT
                          !.dfile = f,
                          !.found = store.tree,
                          !.provider_calls = @ + 1,
                          !.cmd = ClaudeCommand(BuildAgentPrompt(frame.task), frame.context),
                          !.result = IF ProviderException(out) = "none"
                                     THEN [success |-> out = "success", task |-> frame.task]
                                     ELSE @]
          /\ IF ProviderException(out) # "none"
             THEN Raises(Running, ProviderException(out))
             ELSE /\ pc' = "et_log"
                  /\ UNCHANGED last
    /\ cp' = NoCp
    /\ UNCHANGED <<env, workers, sec, stamp, sessionLog, calls>>

\* execute_task, line 64, and _log_session: the entry is appended to
\* session_log and then to agent_sessions.jsonl, which cannot be opened when
\* .giant-ai is gone.
TaskLog ==
    /\ pc = "et_log"
    /\ sessionLog' = Append(sessionLog, SessionEntry(frame))
    /\ IF store.cfgDir
       THEN /\ store' = [store EXCEPT !.logFile =
                           [exists |-> TRUE, lines |-> Append(@.lines, SessionEntry(frame))]]
            /\ pc' = "et_post"
            /\ UNCHANGED last
       ELSE /\ Raises(Running, "FileNotFoundError")
            /\ UNCHANGED store
    /\ UNCHANGED <<env, workers, sec, stamp, frame, batch, cp, edits, calls>>

\* Where execute_task returns to, and what its caller at the prompt sees.
Returns ==
    IF frame.caller = "batch"
    THEN pc' = "b_collect" /\ UNCHANGED last
    ELSE /\ pc' = "idle"
         /\ last' = Done("task", frame.checkpoint_id, frame.result.success, "none",
                         FALSE, 0)

\* A failure handler that restores whenever there is a pre-task checkpoint.
RestoresOnAnyFailure(f) == f.checkpoint_id # NoId

\* Line 74: whether a failed task is undone.
ShouldRestore(f) ==
    f.checkpoint_id # NoId /\ Get(f.options, "auto_restore_on_failure", FALSE)

\* execute_task, lines 66-78: the post-task checkpoint after a success, the
\* auto-restore after a failure, and the return of the result.
TaskPost ==
    /\ pc = "et_post"
    /\ IF frame.result.success
       THEN IF Get(frame.options, "checkpoint_after", FALSE)
            THEN \E now \in Readings : \E o \in CreateCheckpoint(store, now) :
                   /\ Creates(now, o)
                   /\ batch' = CountCreate(batch)
                   /\ IF o.exc = "none" THEN Returns ELSE Raises(Running, o.exc)
                   /\ UNCHANGED frame
            ELSE /\ Returns
                 /\ UNCHANGED <<store, sec, stamp, cp, frame, batch>>
       ELSE IF ShouldRestore(frame)
            THEN /\ frame' = [frame EXCEPT !.restored = frame.checkpoint_id,
                                           !.restores = @ + 1]
                 /\ IF RestoreRaises(store, frame.checkpoint_id, frame.dfile)
                    THEN /\ \E t \in RestoreOntoFile(store.tree,
                                        store.backups[store.meta[frame.checkpoint_id].backup_path]) :
                                store' = [store EXCEPT !.tree = t]
                         /\ Raises(Running, "NotADirectoryError")
                    ELSE /\ store' = RestoreCheckpoint(store, frame.checkpoint_id).st
                         /\ Returns
                 /\ UNCHANGED <<sec, stamp, cp, batch>>
            ELSE /\ Returns
                 /\ UNCHANGED <<store, sec, stamp, cp, frame, batch>>
    /\ UNCHANGED <<env, workers, sessionLog, edits, calls>>

\* --------------------------------------------------------- batch_execute
\* Lines 96-99 without the copy: the task's dictionary is the caller's.
LoopOptionsShared(opts, i) ==
    LET t == IF i > 0
             THEN [k \in DOMAIN opts \cup {"continue_session", "checkpoint"} |->
                     IF k = "continue_session" THEN TRUE
                     ELSE IF k = "checkpoint" THEN FALSE
                     ELSE opts[k]]
             ELSE opts
    IN  [caller |-> t, task |-> t]

\* What lines 96-99 leave in the caller's options dictionary and in the
\* dictionary handed to execute_task for the task at index i.
LoopOptions(opts, i) ==
    [caller |-> opts,
     task   |-> IF i > 0
                THEN [k \in DOMAIN opts \cup {"continue_session", "checkpoint"} |->
                        IF k = "continue_session" THEN TRUE
                        ELSE IF k = "checkpoint" THEN FALSE
                        ELSE opts[k]]
                ELSE opts]

\* batch_execute(tasks, options) is called with n tasks, as the first call
\* of the run.
BatchStart(n) ==
    /\ pc = "idle"
    /\ calls = 0
    /\ last.op = "init"
    /\ calls' = n
    /\ batch' = [n       |-> n,
                 given   |-> options,
                 options |-> options,
                 i       |-> 0,
                 results |-> <<>>,
                 invoked |-> <<>>,
                 creates |-> 0,
                 initial_checkpoint |-> NoId]
    /\ pc' = "b_checkpoint"
    /\ UNCHANGED <<env, workers, store, sec, stamp, sessionLog, frame, last, cp, edits>>

\* batch_execute, lines 87-90: the checkpoint "Batch start".
BatchCheckpoint ==
    /\ pc = "b_checkpoint"
    /\ IF Get(batch.options, "checkpoint", TRUE)
       THEN \E now \in Readings : \E o \in CreateCheckpoint(store, now) :
              /\ Creates(now, o)
              /\ IF o.exc = "none"
                 THEN /\ batch' = [CountCreate(batch) EXCEPT !.initial_checkpoint = o.ret]
                      /\ pc' = "b_loop"
                      /\ UNCHANGED last
                 ELSE /\ Raises("batch", o.exc)
                      /\ batch' = CountCreate(batch)
       ELSE /\ pc' = "b_loop"
            /\ UNCHANGED <<store, sec, stamp, cp, last, batch>>
    /\ UNCHANGED <<env, workers, sessionLog, frame, edits, calls>>

\* batch_execute, lines 92-101 and 109: the next task is handed to
\* execute_task with its own options, or the results are returned.
BatchLoop ==
    /\ pc = "b_loop"
    /\ IF batch.i < batch.n
       THEN LET lo == LoopOptions(batch.options, batch.i)
            IN  /\ batch' = [batch EXCEPT !.options = lo.caller]
                /\ frame' = NewFrame(batch.i, lo.task, "batch")
                /\ pc' = "et_checkpoint"
                /\ UNCHANGED last
       ELSE /\ pc' = "idle"
            /\ last' = Done("batch", NoId, TRUE, "none", FALSE, Len(batch.results))
            /\ UNCHANGED <<frame, batch>>
    /\ UNCHANGED <<env, workers, store, sec, stamp, sessionLog, cp, edits, calls>>

\* A loop that never breaks, and one that breaks on every failure.
StopsNever(result, opts) == FALSE
StopsOnAnyFailure(result, opts) == ~result.success

\* Line 105: whether the loop goes on after this result.
StopsBatch(result, opts) ==
    ~result.success /\ ~Get(opts, "continue_on_failure", FALSE)

\* batch_execute, lines 102-107: the result is appended, and a failure ends
\* the loop unless continue_on_failure is set.
BatchCollect ==
    /\ pc = "b_collect"
    /\ LET results == Append(batch.results, frame.result)
       IN  IF StopsBatch(frame.result, batch.options)
           THEN /\ batch' = [batch EXCEPT !.results = results]
                /\ pc' = "idle"
                /\ last' = Done("batch", NoId, TRUE, "none", FALSE, Len(results))
           ELSE /\ batch' = [batch EXCEPT !.results = results, !.i = @ + 1]
                /\ pc' = "b_loop"
                /\ UNCHANGED last
    /\ UNCHANGED <<env, workers, store, sec, stamp, sessionLog, frame, cp, edits, calls>>

\* ------------------------------------------------- concurrent processes
\* Two processes run CheckpointManager methods on the same project directory.
\* The code takes no lock, so the subprocess calls and file writes of one
\* method are the steps, and the steps of the two processes interleave.
Workers == {1, 2}
NoMsg   == <<>>

\* A process that is not inside a method; `popped` is the message of the
\* stash entry its last restore_checkpoint popped, `label` the one it looked
\* for.
IdleWorker ==
    [pc |-> "idle", id |-> NoId, now |-> <<0, 0>>, label |-> NoMsg, index |-> 0,
     popped |-> NoMsg, ret |-> NoId, modified_files |-> <<>>]

InMethod(w)    == workers[w].pc # "idle"
InCreate(w)    == workers[w].pc \in {"c_stash", "c_backup", "c_meta"}
Finish(w, ret) == [workers[w] EXCEPT !.pc = "idle", !.index = 0, !.ret = ret]

\* create_checkpoint, lines 28-41: the id and the timestamp are read from the
\* clock and the backend is chosen.
CreateBegin(w) ==
    /\ ~InMethod(w)
    /\ stamp < MaxStamp
    /\ \E now \in Readings :
          /\ workers' = [workers EXCEPT ![w] =
                           [IdleWorker EXCEPT !.pc  = IF isGit THEN "c_stash" ELSE "c_backup",
                                              !.id  = CheckpointId(now),
                                              !.now = now]]
          /\ sec' = now[1]
    /\ stamp' = stamp + 1
    /\ UNCHANGED <<env, store, agent, last, cp, edits>>

\* create_checkpoint, lines 43-58: git diff and git stash push.
CreateStash(w) ==
    /\ workers[w].pc = "c_stash"
    /\ store' = GitStashPush(store, StashMsg(workers[w].id), TRUE)
    /\ workers' = [workers EXCEPT ![w].pc = "c_meta",
                                  ![w].modified_files = ModifiedFiles(store)]
    /\ UNCHANGED <<env, agent, sec, stamp, last, cp, edits>>

\* create_checkpoint, lines 61-63: the backup directory is made and filled.
CreateBackup(w) ==
    /\ workers[w].pc = "c_backup"
    /\ LET id  == workers[w].id
           old == IF store.backups[id] = NoFile THEN EmptyBackup ELSE store.backups[id]
       IN  \E b \in BackupProjectFiles(store.tree, old) :
              /\ store' = [store EXCEPT !.backups[id] = b.dir,
                                        !.cfgDir = TRUE, !.cpDir = TRUE]
              /\ workers' = [workers EXCEPT ![w] =
                               IF b.exc = "none" THEN [@ EXCEPT !.pc = "c_meta"]
                               ELSE Finish(w, NoId)]
    /\ UNCHANGED <<env, agent, sec, stamp, last, cp, edits>>

\* create_checkpoint, lines 65-71: the metadata file is written.
CreateMeta(w) ==
    /\ workers[w].pc = "c_meta"
    /\ LET id  == workers[w].id
           rec == IF isGit
                  THEN [id |-> id, timestamp |-> workers[w].now, git_stash |-> StashMsg(id),
                        modified_files |-> workers[w].modified_files]
                  ELSE [id |-> id, timestamp |-> workers[w].now, backup_path |-> id,
                        modified_files |-> <<>>]
       IN  IF store.cpDir
           THEN /\ store' = [store EXCEPT !.meta[id] = rec]
                /\ workers' = [workers EXCEPT ![w] = Finish(w, id)]
           ELSE /\ workers' = [workers EXCEPT ![w] = Finish(w, NoId)]
                /\ UNCHANGED store
    /\ UNCHANGED <<env, agent, sec, stamp, last, cp, edits>>

\* restore_checkpoint, lines 75-84 and 107-111: the metadata is read; a
\* file-copy checkpoint is copied back.
RestoreBegin(w, id) ==
    /\ ~InMethod(w)
    /\ Len(store.stash) < MaxStash
    /\ MetadataExists(store, id)
    /\ LET m == store.meta[id]
       IN  IF "git_stash" \in DOMAIN m
           THEN /\ workers' = [workers EXCEPT ![w] =
                                 [IdleWorker EXCEPT !.pc = "r_temp", !.id = id,
                                                    !.label = m.git_stash]]
                /\ UNCHANGED store
           ELSE /\ workers' = [workers EXCEPT ![w] = [IdleWorker EXCEPT !.id = id]]
                /\ store' = IF store.backups[m.backup_path] # NoFile
                            THEN [store EXCEPT !.tree =
                                    RestoreProjectFiles(store.tree, store.backups[m.backup_path])]
                            ELSE store
    /\ UNCHANGED <<env, agent, sec, stamp, last, cp, edits>>

\* restore_checkpoint, lines 87-90: the current changes are stashed.
RestoreTemp(w) ==
    /\ workers[w].pc = "r_temp"
    /\ store' = GitStashPush(store, TempMsg, FALSE)
    /\ workers' = [workers EXCEPT ![w].pc = "r_list"]
    /\ UNCHANGED <<env, agent, sec, stamp, last, cp, edits>>

\* restore_checkpoint, lines 93-102: the stash list is read and the index of
\* the first line that contains the label is found.
RestoreList(w) ==
    /\ workers[w].pc = "r_list"
    /\ LET hit == IF isGit THEN Matching(store.stash, workers[w].label) ELSE {}
       IN  workers' = [workers EXCEPT ![w] =
                         IF hit = {} THEN Finish(w, workers[w].id)
                         ELSE [@ EXCEPT !.pc = "r_pop",
                                        !.index = CHOOSE i \in hit : \A j \in hit : i <= j]]
    /\ UNCHANGED <<env, store, agent, sec, stamp, last, cp, edits>>

\* restore_checkpoint, lines 103-106: the entry now at that index is popped;
\* git refuses an index past the end of the list.
RestorePop(w) ==
    /\ workers[w].pc = "r_pop"
    /\ LET i == workers[w].index
       IN  IF i <= Len(store.stash)
           THEN /\ store' = GitStashPop(store, i)
                /\ workers' = [workers EXCEPT ![w] =
                                 [Finish(w, workers[w].id) EXCEPT !.popped = store.stash[i].msg]]
           ELSE /\ workers' = [workers EXCEPT ![w] = Finish(w, workers[w].id)]
                /\ UNCHANGED store
    /\ UNCHANGED <<env, agent, sec, stamp, last, cp, edits>>

\* ------------------------------------------------------ LLMProviderFactory
MaxRegs == 1     \* register_provider calls

ProviderNames == {"claude-code", "claude-desktop", "openai", "mine"}
Classes       == {"ClaudeCodeProvider", "ClaudeDesktopProvider", "OpenAIProvider",
                  "MyProvider"}
Lazy          == "None"           \* the value of a name that is imported lazily
Unregistered  == "KeyError"       \* the name is not a key of _providers
NoProvider    == "none"

\* LLMProviderFactory._providers as the module defines it.
BuiltinProviders ==
    [n \in ProviderNames |->
        IF n = "claude-code" THEN "ClaudeCodeProvider"
        ELSE IF n = "claude-desktop" THEN Lazy
        ELSE IF n = "openai" THEN "OpenAIProvider"
        ELSE Unregistered]

\* What the constructor of a provider class raises: OpenAIProvider without
\* an API key, ClaudeDesktopProvider when no Claude Desktop command is found.
CtorException(class, config, desktop) ==
    IF class = "OpenAIProvider" /\ ~config.openai_api_key THEN "ValueError"
    ELSE IF class = "ClaudeDesktopProvider" /\ ~desktop THEN "RuntimeError"
    ELSE "none"

\* A factory that answers an unknown name with the default provider.
CreateFallsBack(reg, name, config, desktop) ==
    LET class == IF reg[name] \in Classes THEN reg[name] ELSE "ClaudeCodeProvider"
        exc   == CtorException(class, config, desktop)
    IN  [providers |-> reg,
         instance  |-> IF exc = "none" THEN class ELSE NoProvider,
         exc       |-> exc]

\* LLMProviderFactory.create(provider_name, config): the registry after the
\* lazy import, the class of the instance returned, the exception raised.
FactoryCreate(reg, name, config, desktop) ==
    IF reg[name] = Unregistered
    THEN [providers |-> reg, instance |-> NoProvider, exc |-> "ValueError"]
    ELSE LET reg1  == IF name = "claude-desktop" /\ reg[name] = Lazy
                      THEN [reg EXCEPT ![name] = "ClaudeDesktopProvider"]
                      ELSE reg
             class == reg1[name]
             exc   == CtorException(class, config, desktop)
         IN  [providers |-> reg1,
              instance  |-> IF exc = "none" THEN class ELSE NoProvider,
              exc       |-> exc]

\* agent.yml as _load_agent_config reads it: the provider name and whether an
\* API key is configured.
AgentConfigs ==
    [provider : ProviderNames, openai_api_key : BOOLEAN]

\* The factory and agent of a process whose AgentMode is not constructed yet.
NewFactory(config, desktop) ==
    [providers    |-> BuiltinProviders,
     agent_config |-> config,
     desktop      |-> desktop,
     provider     |-> NoProvider,
     regs         |-> 0]

\* An AgentMode constructed with the default configuration.
DefaultFactory ==
    [NewFactory([provider |-> "claude-code", openai_api_key |-> FALSE], FALSE)
        EXCEPT !.provider = "ClaudeCodeProvider"]

\* The names and classes register_provider is called with.
RegisteredNames   == {"mine", "openai"}
RegisteredClasses == {"MyProvider"}

\* LLMProviderFactory.register_provider(name, provider_class), called by the
\* program that is about to construct the agent.
RegisterProvider(name, class) ==
    /\ pc = "new"
    /\ factory.regs < MaxRegs
    /\ factory' = [factory EXCEPT !.providers[name] = class, !.regs = @ + 1]
    /\ last' = Done("register", NoId, TRUE, "none", FALSE, 0)
    /\ UNCHANGED <<isGit, ignored, options, workers, agent, store, sec, stamp, cp,
                   edits>>

\* AgentMode.__init__: CheckpointManager.__init__ makes the checkpoint
\* directory, session_log is emptied, agent.yml is read, and the provider is
\* created last; an exception of the factory leaves the constructor.
AgentInit ==
    /\ pc = "new"
    /\ LET r == FactoryCreate(factory.providers, factory.agent_config.provider,
                              factory.agent_config, factory.desktop)
       IN  /\ factory' = [factory EXCEPT !.providers = r.providers,
                                         !.provider  = r.instance]
           /\ pc' = IF r.exc = "none" THEN "idle" ELSE "dead"
           /\ last' = Done("AgentMode", NoId, r.exc = "none", r.exc, FALSE, 0)
    /\ store' = [store EXCEPT !.cfgDir = TRUE, !.cpDir = TRUE]
    /\ sessionLog' = <<>>
    /\ UNCHANGED <<isGit, ignored, options, workers, frame, batch, calls, sec, stamp,
                   cp, edits>>

\* ------------------------------------------------------------ initial state
\* A project under git with .giant-ai ignored or not, or not under version
\* control.
InitCommon(stores, opts) ==
    /\ isGit \in BOOLEAN
    /\ ignored \in BOOLEAN
    /\ isGit \/ ignored
    /\ options \in opts
    /\ store \in stores
    /\ sec = 0
    /\ stamp = 0
    /\ sessionLog = <<>>
    /\ frame = NoFrame
    /\ batch = NoFrame
    /\ last = Done("init", NoId, TRUE, "none", FALSE, 0)
    /\ cp = NoCp
    /\ edits = 0
    /\ calls = 0
    /\ workers = [w \in Workers |-> IdleWorker]

\* The agent is constructed with the default provider.
InitWith(stores, opts) ==
    /\ InitCommon(stores, opts)
    /\ pc = "idle"
    /\ factory = DefaultFactory

\* The project as committed: "a" alone.
HeadStart == [p \in Paths |-> IF p = "a" THEN 1 ELSE 0]

\* Trees the agent is started on: a clean one and one with uncommitted
\* changes.
StartTrees == {HeadStart,
               [p \in Paths |-> IF p = "d/y" THEN 0 ELSE IF p = "a" THEN 2 ELSE 1]}

InitIn(trees, opts) == InitWith({InitStore(t) : t \in trees}, opts)

Init      == InitIn(Trees, {<<>>})
\* The same, in a repository made by `git init` in which nothing was
\* committed yet.
InitUnborn(trees, opts) ==
    /\ InitWith({[InitStore(t) EXCEPT !.hasHead = FALSE] : t \in trees}, opts)
    /\ isGit /\ ignored

InitTask  == InitIn(StartTrees, TaskOptions) \/ InitUnborn(StartTrees, TaskOptions)
InitBatch == InitIn(StartTrees, BatchOptions)
InitVcs   == InitIn(StartTrees, {<<>>})

\* A non-git project with an agent.yml, before AgentMode is constructed.
InitProvider ==
    /\ InitCommon({[InitStore(HeadStart) EXCEPT !.cpDir = FALSE]}, {<<>>})
    /\ ~isGit
    /\ pc = "new"
    /\ factory \in {NewFactory(c, d) : c \in AgentConfigs, d \in BOOLEAN}

\* The checkpoint store driven by hand.
NextStore ==
    \/ Checkpoint
    \/ \E id \in Ids : Restore(id)
    \/ \E k \in 0..(MaxSec + 1) : Cleanup(k)
    \/ \E p \in Paths : \E c \in Contents(p) : Edit(p, c)
    \/ Construct

\* Single tasks.
NextTask ==
    \/ TaskStart
    \/ TaskCheckpoint
    \/ TaskProvider
    \/ TaskLog
    \/ TaskPost

\* One task executed twice with different options.
NextPair ==
    \/ TaskStart
    \/ \E o \in TaskOptions : TaskAgain(o)
    \/ TaskCheckpoint
    \/ TaskProvider
    \/ TaskLog
    \/ TaskPost

\* Providers are registered, the agent is constructed and runs tasks.
NextProvider ==
    \/ \E n \in RegisteredNames : \E c \in RegisteredClasses : RegisterProvider(n, c)
    \/ AgentInit
    \/ TaskStart
    \/ TaskCheckpoint
    \/ TaskProvider
    \/ TaskLog
    \/ TaskPost

\* Batches.
NextBatch ==
    \/ \E n \in 0..MaxCalls : BatchStart(n)
    \/ BatchCheckpoint
    \/ BatchLoop
    \/ BatchCollect
    \/ TaskCheckpoint
    \/ TaskProvider
    \/ TaskLog
    \/ TaskPost

\* The checkpoint store of a project that is put under git, or taken out of
\* it, between the calls.
NextVcs ==
    \/ Checkpoint
    \/ \E id \in Ids : Restore(id)
    \/ \E p \in Paths : \E c \in Contents(p) : Edit(p, c)
    \/ GitRemoved
    \/ GitAdded

\* Two processes on one project, and the files changing under them.
NextConcurrent ==
    \/ \E w \in Workers : CreateBegin(w)
    \/ \E w \in Workers : CreateStash(w)
    \/ \E w \in Workers : CreateBackup(w)
    \/ \E w \in Workers : CreateMeta(w)
    \/ \E w \in Workers : \E id \in Ids : RestoreBegin(w, id)
    \/ \E w \in Workers : RestoreTemp(w)
    \/ \E w \in Workers : RestoreList(w)
    \/ \E w \in Workers : RestorePop(w)
    \/ \E p \in Paths : \E c \in Contents(p) : Edit(p, c)

Next == NextStore \/ NextTask \/ NextPair \/ NextProvider \/ NextBatch \/ NextVcs
            \/ NextConcurrent

SpecStore == Init /\ [][NextStore]_vars
SpecTask  == InitTask /\ [][NextTask]_vars
SpecPair  == InitTask /\ [][NextPair]_vars
SpecProvider == InitProvider /\ [][NextProvider]_vars
SpecBatch == InitBatch /\ [][NextBatch]_vars
SpecVcs   == InitVcs /\ [][NextVcs]_vars
SpecConcurrent == InitVcs /\ [][NextConcurrent]_vars
Spec      == InitTask /\ [][Next]_vars

\* ======================================================== claims, store
Metas(st) == {i \in Ids : st.meta[i] # NoFile}
Min(x, y) == IF x < y THEN x ELSE y

\* C1: restore_checkpoint(id) called right after id = create_checkpoint()
\* leaves every project file with the content it had just before the create,
\* in git mode and in copy mode.
C1_RoundTrip ==
    (last.op = "restore" /\ last.imm /\ last.ok) => store.tree = cp.tree

\* C3: restore_checkpoint of an id that has no metadata record returns False
\* and changes nothing on disk: tree, stash list, metadata, backups.
C3_RestoreUnknownChangesNothing ==
    [][\A id \in Ids :
          (last'.op = "restore" /\ last'.id = id /\ ~MetadataExists(store, id))
              => (~last'.ok /\ store' = store)]_vars

\* C3 witness: an unknown id was restored while other checkpoints, stash
\* entries and uncommitted changes existed.
C3_Witness ==
    /\ last.op = "restore" /\ ~last.ok
    /\ Metas(store) # {}
    /\ isGit /\ store.stash # <<>> /\ TrackedDirty(store.tree)

\* C9: cleanup_old_checkpoints(k) on n file-copy checkpoints leaves min(n, k)
\* of them, the most recent ones, untouched; of every older one the backup
\* directory and the metadata file are gone; with n <= k nothing changes.
C9_CleanupKeepsMostRecent ==
    [][(last'.op = "cleanup" /\ \A i \in Metas(store) : "backup_path" \in DOMAIN store.meta[i])
          => LET k    == last'.id
                 n    == Cardinality(Metas(store))
                 kept == Metas(store')
                 gone == Metas(store) \ kept
             IN  /\ kept \subseteq Metas(store)
                 /\ Cardinality(kept) = Min(n, k)
                 /\ Len(ListCheckpoints(store')) = Min(n, k)
                 /\ \A i \in kept : \A j \in gone :
                        TimestampLess(store.meta[j].timestamp, store.meta[i].timestamp)
                 /\ \A i \in kept : /\ store'.meta[i] = store.meta[i]
                                    /\ store'.backups[i] = store.backups[i]
                 /\ \A j \in gone : store'.backups[j] = NoFile
                 /\ n <= k => store' = store]_vars

\* C9 witness: a cleanup that kept at least one copy-mode checkpoint and
\* removed at least one.
C9_Witness ==
    /\ last.op = "cleanup" /\ ~isGit
    /\ last.id >= 1 /\ last.n > last.id
    /\ Cardinality(Metas(store)) = last.id

\* C10: two create_checkpoint calls made one after the other return
\* different ids, the later one the greater.
C10_IdsIncrease ==
    (cp.fresh /\ cp.prev # NoId) => cp.prev < cp.id

\* ================================================ claims, execute_task
TaskReturned  == pc = "idle" /\ last.op = "task" /\ last.exc = "none"
BatchReturned == pc = "idle" /\ last.op = "batch" /\ last.exc = "none"

\* C2: execute_task with the pre-task checkpoint and auto_restore_on_failure
\* enabled, against a provider that reports failure, returns with the project
\* files as they were when the pre-task checkpoint was taken, whatever the
\* provider changed.
C2_FailedTaskRestoresProject ==
    (/\ TaskReturned /\ ~last.ok
     /\ frame.checkpoint_id # NoId
     /\ Get(frame.options, "auto_restore_on_failure", FALSE))
        => store.tree = frame.snap

\* C4: every call of execute_task has added exactly one entry to the session
\* log when it is over, whether it returned or an exception ended it.
C4_OneLogEntryPerTask ==
    (pc = "idle" /\ last.op = "task") => Len(sessionLog) = frame.log0 + 1

\* C13: within one execute_task the provider is invoked at most once, exactly
\* once when the call returns; restore_checkpoint is invoked, once and with
\* the pre-task checkpoint id, if and only if the result is a failure,
\* auto_restore_on_failure is set and a pre-task checkpoint id exists.
C13_RestoreIffFailedAndEnabled ==
    frame # NoFrame =>
        /\ frame.provider_calls <= 1 /\ frame.restores <= 1
        /\ frame.restores = 1
              => /\ frame.provider_calls = 1 /\ ~frame.result.success
                 /\ Get(frame.options, "auto_restore_on_failure", FALSE)
                 /\ frame.checkpoint_id # NoId
                 /\ frame.restored = frame.checkpoint_id
        /\ TaskReturned
              => /\ frame.provider_calls = 1
                 /\ (/\ ~last.ok
                     /\ Get(frame.options, "auto_restore_on_failure", FALSE)
                     /\ frame.checkpoint_id # NoId) => frame.restores = 1

\* C13 witness: a failed task returned after its pre-task checkpoint was
\* restored over what the provider had changed.
C13_Witness ==
    /\ TaskReturned /\ ~last.ok
    /\ frame.restores = 1 /\ frame.restored = frame.checkpoint_id
    /\ frame.provider_calls = 1

\* C14: after a successful execute_task with checkpoint and checkpoint_after
\* both enabled the store lists two more checkpoints than before the call.
C14_TwoMoreCheckpoints ==
    (/\ TaskReturned /\ last.ok
     /\ Get(frame.options, "checkpoint", TRUE)
     /\ Get(frame.options, "checkpoint_after", FALSE))
        => Count(store) = frame.listed0 + 2

\* C15: no execute_task call is ended by an exception of the provider.
C15_ProviderNeverRaises ==
    ~(pc = "idle" /\ last.op = "task" /\ last.exc = "ProviderError")

Has(seq, x) == \E i \in 1..Len(seq) : seq[i] = x

\* C16: the context handed to the provider carries auto_accept and
\* continue_session as the task options give them (False when absent), the
\* task text and the pre-task checkpoint id (None when checkpointing is off);
\* the claude command line has --auto-accept iff auto_accept is true and
\* --continue iff continue_session is true.
C16_ContextCarriesFlags ==
    (frame # NoFrame /\ frame.context # NoContext) =>
        /\ frame.context.auto_accept = Get(frame.options, "auto_accept", FALSE)
        /\ frame.context.continue_session = Get(frame.options, "continue_session", FALSE)
        /\ frame.context.task = frame.task
        /\ frame.context.checkpoint_id = frame.checkpoint_id
        /\ ~Get(frame.options, "checkpoint", TRUE) => frame.context.checkpoint_id = NoId
        /\ frame.cmd # NoCmd =>
              /\ Has(frame.cmd, "--auto-accept") <=> Get(frame.options, "auto_accept", FALSE)
              /\ Has(frame.cmd, "--continue") <=> Get(frame.options, "continue_session", FALSE)
              /\ frame.cmd[Len(frame.cmd)] = BuildAgentPrompt(frame.task)

\* C16 witness: the provider ran with both flags on its command line.
C16_Witness ==
    /\ TaskReturned
    /\ frame.cmd = <<"claude", "--auto-accept", "--continue", "--print",
                     BuildAgentPrompt(frame.task)>>

\* C18: an execute_task call interrupted during the provider call has added
\* one entry to the session log, a failure with the error kind "interrupted",
\* and its pre-task checkpoint is still listed.
C18_InterruptIsLogged ==
    (pc = "idle" /\ last.op = "task" /\ last.exc = "KeyboardInterrupt") =>
        /\ Len(sessionLog) = frame.log0 + 1
        /\ LET e == sessionLog[Len(sessionLog)]
           IN  /\ ~e.success
               /\ "error_kind" \in DOMAIN e /\ e.error_kind = "interrupted"
        /\ frame.checkpoint_id # NoId => MetadataExists(store, frame.checkpoint_id)

\* ============================================== claims, batch_execute
InBatch == batch # NoFrame

\* Results and provider calls follow the task list in order.
InTaskOrder ==
    /\ \A j \in 1..Len(batch.results) : batch.results[j].task = j - 1
    /\ \A j \in 1..Len(batch.invoked) : batch.invoked[j].task = j - 1

\* C5: without continue_on_failure, when the first failing task is at index k
\* the batch returns exactly the k+1 results of tasks 0..k, the first k of
\* them successful, and the provider is never invoked for a later task.
C5_StopsAtFirstFailure ==
    (InBatch /\ ~Get(batch.given, "continue_on_failure", FALSE))
        => /\ InTaskOrder
           /\ \A j \in 1..Len(batch.results) :
                  ~batch.results[j].success
                      => /\ Len(batch.results) = j
                         /\ Len(batch.invoked) = j
                         /\ pc = "idle" /\ last.op = "batch" /\ last.n = j
                         /\ \A i \in 1..(j - 1) : batch.results[i].success

\* C5 witness: a batch of two tasks returned one failed result; the second
\* task was never run.
C5_Witness ==
    /\ BatchReturned /\ ~Get(batch.given, "continue_on_failure", FALSE)
    /\ batch.n = 2 /\ Len(batch.results) = 1 /\ ~batch.results[1].success
    /\ Len(batch.invoked) = 1

C7_OneCheckpointPerBatch ==
    BatchReturned
        => batch.creates = (IF Get(batch.given, "checkpoint", TRUE) THEN 1 ELSE 0)

\* C8: in a batch every task at index >= 1 runs with continue_session true
\* and without a pre-task checkpoint; the caller's options dictionary is
\* never modified and the first task gets it as the caller gave it.
C8_LaterTasksContinueSession ==
    InBatch =>
        /\ batch.options = batch.given
        /\ (frame # NoFrame /\ frame.caller = "batch") =>
              IF frame.task >= 1
              THEN /\ Get(frame.options, "continue_session", FALSE)
                   /\ ~Get(frame.options, "checkpoint", TRUE)
                   /\ frame.checkpoint_id = NoId
                   /\ frame.context # NoContext
                          => /\ frame.context.continue_session
                             /\ frame.context.checkpoint_id = NoId
              ELSE /\ frame.options = batch.given
                   /\ frame.context # NoContext
                          => frame.context.continue_session
                                 = Get(batch.given, "continue_session", FALSE)

\* C8 witness: the provider is about to run for the second task of a batch
\* whose caller passed continue_session = False and left checkpointing on.
C8_Witness ==
    /\ pc = "et_provider" /\ frame.caller = "batch" /\ frame.task = 1
    /\ "continue_session" \in DOMAIN batch.given /\ ~batch.given["continue_session"]
    /\ Get(batch.given, "checkpoint", TRUE)

\* ============================================ claims, backend references
\* The locator a metadata record carries can be resolved: a stash entry with
\* its label is in the stash list, or its backup directory exists.
BackendResolvable(st, id) ==
    LET m == st.meta[id]
    IN  IF "git_stash" \in DOMAIN m
        THEN isGit /\ Matching(st.stash, m.git_stash) # {}
        ELSE st.backups[m.backup_path] # NoFile

\* C11: in every state reached by create_checkpoint, restore_checkpoint and
\* cleanup_old_checkpoints, every checkpoint that has a metadata record has a
\* resolvable backend locator, so a restored checkpoint can be restored again.
C11_BackendRefResolvable ==
    \A id \in Metas(store) : BackendResolvable(store, id)

\* C12: no call other than cleanup_old_checkpoints removes the metadata
\* record of a checkpoint: every id listed before the call is listed after.
C12_OnlyCleanupRemoves ==
    [][last'.op # "cleanup" => Metas(store) \subseteq Metas(store')]_vars

\* C19: restore_checkpoint returns True only if the locator recorded for the
\* checkpoint could be resolved when it was called.
C19_RestoreFailsOnMissingBackend ==
    [][\A id \in Ids :
          (last'.op = "restore" /\ last'.id = id /\ MetadataExists(store, id)
             /\ ~BackendResolvable(store, id))
              => ~last'.ok]_vars

\* C20: restore_checkpoint takes the path that the checkpoint's metadata
\* records, whatever the project's version-control status is now.  A
\* checkpoint recorded with a stash label is restored by git alone: no backup
\* directory is read or written, no existing untracked file is overwritten,
\* and nothing changes when .git is gone.  One
\* recorded with a backup path is restored by copying its backup over the
\* project, and the stash list is left alone even under git.
C20_BackendFromMetadata ==
    [][\A id \in Ids :
          (last'.op = "restore" /\ last'.id = id /\ MetadataExists(store, id))
              => LET m == store.meta[id]
                 IN  IF "git_stash" \in DOMAIN m
                     THEN /\ store'.backups = store.backups
                          /\ ~isGit => store' = store
                          /\ \A p \in Paths \ Tracked :
                                 store.tree[p] # Absent => store'.tree[p] = store.tree[p]
                     ELSE /\ store'.stash = store.stash
                          /\ store.backups[m.backup_path] # NoFile
                                => store'.tree = RestoreProjectFiles(
                                                    store.tree, store.backups[m.backup_path])]_vars

\* C20 witness: a checkpoint made by file copy was restored after the project
\* had been put under git and a tracked file changed; no stash entry exists.
C20_Witness ==
    /\ last.op = "restore" /\ last.ok
    /\ isGit /\ edits >= 1
    /\ MetadataExists(store, last.id)
    /\ "backup_path" \in DOMAIN store.meta[last.id]
    /\ store.stash = <<>>
    /\ ~TrackedDirty(store.tree)

\* ================================================= claims, concurrency
\* C17: the methods of the checkpoint store are serialized per project: at
\* most one process is inside create_checkpoint or restore_checkpoint at a
\* time, so a restore pops only a stash entry that carries its own label, and
\* two creates in progress never have the same id.
C17_OperationsSerialized ==
    /\ \A v, w \in Workers : (InMethod(v) /\ InMethod(w)) => v = w
    /\ \A w \in Workers :
          workers[w].popped # NoMsg => workers[w].popped = workers[w].label
    /\ \A v, w \in Workers :
          (InCreate(v) /\ InCreate(w) /\ v # w) => workers[v].id # workers[w].id

\* ================================================= claims, restore and list
\* An uncommitted change: a tracked file that differs from HEAD, or an
\* untracked file that exists.
Uncommitted(t, p) ==
    IF p \in Tracked THEN t[p] # HeadTree[p] ELSE t[p] # Absent

\* C21: a restore of a git-mode checkpoint discards no uncommitted work:
\* every uncommitted change present before the call is still in the working
\* tree afterwards, or is held by the stash entry "Temp stash before restore"
\* that this call pushed.
C21_RestoreKeepsUncommittedWork ==
    [][\A id \in Ids :
          (/\ last'.op = "restore" /\ last'.id = id /\ isGit
           /\ MetadataExists(store, id)
           /\ "git_stash" \in DOMAIN store.meta[id])
              => \A p \in Paths :
                    Uncommitted(store.tree, p)
                        => \/ store'.tree[p] = store.tree[p]
                           \/ /\ Cardinality(Matching(store'.stash, TempMsg))
                                    = Cardinality(Matching(store.stash, TempMsg)) + 1
                              /\ store'.stash[1].msg = TempMsg
                              /\ p \in Tracked
                              /\ store'.stash[1].tracked[p] = store.tree[p]]_vars

\* C21 witness: a restore has put the checkpoint's content of a tracked file
\* into the tree, and the change it found there is in the stash entry it
\* pushed.
C21_Witness ==
    /\ last.op = "restore" /\ last.ok /\ isGit
    /\ store.stash # <<>> /\ store.stash[1].msg = TempMsg
    /\ store.stash[1].tracked["a"] # HeadTree["a"]
    /\ store.tree["a"] # store.stash[1].tracked["a"]
    /\ store.tree["a"] # HeadTree["a"]

\* C22: list_checkpoints returns exactly one summary per metadata record,
\* and every summary was created later than all the summaries after it.
C22_ListNewestFirst ==
    LET l == ListCheckpoints(store)
    IN  /\ Len(l) = Cardinality(Metas(store))
        /\ \A i \in Metas(store) : \E k \in 1..Len(l) : l[k] = i
        /\ \A j, k \in 1..Len(l) :
              j < k => TimestampLess(store.meta[l[k]].timestamp,
                                     store.meta[l[j]].timestamp)

\* C22 witness: two checkpoints exist and the listing starts with the one
\* created last.
C22_Witness ==
    LET l == ListCheckpoints(store)
    IN  /\ last.op = "create" /\ Len(l) = 2
        /\ l[1] = last.id
        /\ TimestampLess(store.meta[l[2]].timestamp, store.meta[l[1]].timestamp)

\* ======================================== claims, results and failing steps
\* C23: two executions of a task that differ in whether a pre-task checkpoint
\* was created or in whether an auto-restore ran never return the same
\* result.
C23_OutcomeInResult ==
    (TaskReturned /\ frame # NoFrame /\ frame.before # NoFrame
        /\ Outcome(frame) # frame.before.outcome)
            => frame.result # frame.before.result

\* C24: a call of execute_task that ran the auto-restore after a failed task
\* returns the provider's failure result to its caller, also when the restore
\* itself failed; no error of the restore takes the result's place.
C24_RestoreFailureKeepsResult ==
    (pc = "idle" /\ frame # NoFrame /\ frame.caller = "prompt" /\ frame.restores > 0)
        => (last.op = "task" /\ last.exc = "none" /\ ~last.ok
              /\ frame.result # NoResult /\ ~frame.result.success)

\* C25: when execute_task makes the post-task checkpoint of a successful
\* task, the call returns the provider's success result whether or not that
\* checkpoint could be created.
C25_PostCheckpointKeepsSuccess ==
    [][(/\ pc = "et_post" /\ frame.caller = "prompt"
        /\ frame.result.success /\ stamp' # stamp)
           => (last'.op = "task" /\ last'.exc = "none" /\ last'.ok)]_vars

\* The checkpoint id holds the project state snap: its metadata file exists
\* and the stash entry with its label, or its backup directory, has the
\* content of every file of snap; in a repository with a commit and nothing
\* uncommitted HEAD is that state.
Captured(st, id, snap) ==
    /\ MetadataExists(st, id)
    /\ LET m == st.meta[id]
       IN  IF "git_stash" \in DOMAIN m
           THEN \/ st.hasHead /\ \A p \in Paths : ~Uncommitted(snap, p)
                \/ \E i \in Matching(st.stash, m.git_stash) :
                      /\ \A p \in Tracked : st.stash[i].tracked[p] = snap[p]
                      /\ \A p \in Paths \ Tracked : st.stash[i].untracked[p] = snap[p]
           ELSE /\ st.backups[m.backup_path] # NoFile
                /\ \A p \in Paths : st.backups[m.backup_path][p] = snap[p]

\* C26: when the caller asked for a pre-task checkpoint, the provider is
\* invoked only after a checkpoint that captured the project state as it was
\* when execute_task was called.
C26_NoProviderWithoutSnapshot ==
    (pc = "et_provider" /\ Get(frame.options, "checkpoint", TRUE))
        => Captured(store, frame.checkpoint_id, frame.snap)

\* ============================================================ claims, factory
\* C27: a provider that cannot be constructed (its name is not in the
\* registry or its constructor raises) makes the construction of AgentMode
\* fail, and then no task is executed, no checkpoint is created and nothing
\* is logged; LLMProviderFactory.create raises ValueError for an unregistered
\* name and otherwise gives an instance of the class registered under the
\* name, also when register_provider put the class there.
C27_ProviderUnavailableIsFatal ==
    /\ pc \in {"new", "dead"}
          => /\ calls = 0 /\ frame = NoFrame
             /\ Count(store) = 0 /\ store.backups = NoBackups
             /\ sessionLog = <<>> /\ ~store.logFile.exists
             /\ factory.provider = NoProvider
    /\ last.op = "AgentMode"
          => LET name  == factory.agent_config.provider
                 class == factory.providers[name]
             IN  IF class = Unregistered
                 THEN pc = "dead" /\ last.exc = "ValueError"
                 ELSE IF CtorException(class, factory.agent_config, factory.desktop)
                            # "none"
                 THEN /\ pc = "dead"
                      /\ last.exc = CtorException(class, factory.agent_config,
                                                  factory.desktop)
                 ELSE /\ pc # "dead" /\ last.exc = "none"
                      /\ class \in Classes /\ factory.provider = class

\* C27 witness: the configured name was not registered, another class was
\* registered by register_provider, and the construction has failed after
\* the checkpoint directory was made.
C27_Witness ==
    /\ pc = "dead" /\ last.op = "AgentMode" /\ last.exc = "ValueError"
    /\ factory.providers[factory.agent_config.provider] = Unregistered
    /\ factory.regs > 0 /\ store.cpDir

\* ====================================================== claims, session log
\* C28: the persisted session log only grows at its end: whatever operation
\* runs, every entry that was in agent_sessions.jsonl before it is still
\* there afterwards, unchanged and at the same position.
C28_SessionLogAppendOnly ==
    [][/\ Len(store'.logFile.lines) >= Len(store.logFile.lines)
       /\ \A k \in 1..Len(store.logFile.lines) :
             store'.logFile.lines[k] = store.logFile.lines[k]]_vars

\* C29: with checkpointing enabled, when the provider is invoked the pre-task
\* checkpoint has its metadata record and the snapshot of the project as the
\* call found it, and its id is the one in the provider's context and in the
\* session log entry; with checkpointing disabled no checkpoint was created
\* and the id is None.
C29_CheckpointBeforeProvider ==
    /\ (pc = "et_provider" /\ Get(frame.options, "checkpoint", TRUE))
          => /\ frame.checkpoint_id # NoId
             /\ frame.context.checkpoint_id = frame.checkpoint_id
             /\ Captured(store, frame.checkpoint_id, frame.snap)
    /\ (pc = "et_provider" /\ ~Get(frame.options, "checkpoint", TRUE))
          => /\ frame.checkpoint_id = NoId
             /\ frame.context.checkpoint_id = NoId
             /\ Count(store) = frame.listed0 /\ store.tree = frame.snap
    /\ pc = "et_post"
          => /\ Len(sessionLog) = frame.log0 + 1
             /\ sessionLog[Len(sessionLog)].checkpoint_id = frame.checkpoint_id

\* C30: the session log entry of an execute_task call is written last: when
\* the call runs its auto-restore or its post-task checkpoint, the entry of
\* the call is not in the log yet.
C30_LogWrittenLast ==
    [][(/\ pc = "et_post"
        /\ frame'.restores # frame.restores \/ stamp' # stamp)
           => Len(sessionLog) = frame.log0]_vars

\* ================================================ claims, snapshots and frames
\* C31: when several stash entries carry the label of the checkpoint that an
\* auto-restore restores, one of them is taken off the stash list, the most
\* recent one, the others stay, and restore_checkpoint prints a warning
\* besides its usual lines.
C31_AmbiguousLabelWarns ==
    [][\A id \in Ids :
          LET hit  == Matching(store.stash, StashMsg(id))
              rest == Matching(store'.stash, StashMsg(id))
          IN  (/\ pc = "et_post" /\ frame'.restores # frame.restores
               /\ frame.checkpoint_id = id /\ isGit
               /\ MetadataExists(store, id) /\ Cardinality(hit) >= 2)
                 => /\ Cardinality(rest) = Cardinality(hit) - 1
                    /\ \E m \in RestoreOutput(store, id) :
                          m \notin {"Checkpoint not found", "Restored checkpoint"}]_vars

\* C32: in a git project, a create_checkpoint whose `git stash push` exits
\* non-zero although there are files to stash ends in an error, returns no
\* id and writes no metadata record; with a clean working tree the call
\* returns an id whose metadata record exists.
C32_StashFailureFailsCreate ==
    [][/\ (/\ stamp' # stamp /\ isGit /\ ~store.hasHead
           /\ \E p \in Paths : store.tree[p] # Absent)
              => /\ store'.meta = store.meta
                 /\ cp'.id = NoId /\ ~cp'.fresh
       /\ (/\ stamp' # stamp /\ isGit /\ store.hasHead
           /\ ~TrackedDirty(store.tree) /\ ~UntrackedPresent(store.tree)
           /\ ignored)
              => /\ cp'.fresh /\ MetadataExists(store', cp'.id)
                 /\ store'.stash = store.stash]_vars

\* C33: from the moment create_checkpoint has taken its snapshot (the stash
\* entry with its label is on the stash list, or its backup directory is
\* written) a record on disk names that snapshot's locator, so a process that
\* stops before the metadata write leaves a snapshot that list_checkpoints
\* and restore_checkpoint can find.
C33_LocatorBeforeMetadata ==
    \A w \in Workers :
        (/\ workers[w].pc = "c_meta"
         /\ \/ Matching(store.stash, StashMsg(workers[w].id)) # {}
            \/ store.backups[workers[w].id] # NoFile)
            => /\ MetadataExists(store, workers[w].id)
               /\ LET m == store.meta[workers[w].id]
                  IN  \/ "git_stash" \in DOMAIN m /\ m.git_stash = StashMsg(workers[w].id)
                      \/ "backup_path" \in DOMAIN m /\ m.backup_path = workers[w].id

\* C34: cleanup_old_checkpoints leaves the stash list and the project files
\* as they are; of a git-mode checkpoint older than the keep_count most
\* recent ones only the metadata record goes.
C34_CleanupKeepsStash ==
    [][last'.op = "cleanup"
          => /\ store'.stash = store.stash
             /\ store'.tree = store.tree
             /\ Metas(store') \subseteq Metas(store)
             /\ Cardinality(Metas(store')) = Min(Cardinality(Metas(store)), last'.id)
             /\ (\A i \in Metas(store) : "git_stash" \in DOMAIN store.meta[i])
                   => store' = [store EXCEPT !.meta = store'.meta]]_vars

\* C34 witness: a cleanup has removed the metadata record of a git-mode
\* checkpoint whose stash entry is still on the list.
C34_Witness ==
    /\ last.op = "cleanup" /\ isGit /\ ignored
    /\ last.n > Cardinality(Metas(store))
    /\ \E id \in Ids : /\ ~MetadataExists(store, id)
                       /\ Matching(store.stash, StashMsg(id)) # {}

\* C35: a copy-mode restore, here the auto-restore of a failed task, leaves
\* every file under a top-level entry of the backup with the backup's
\* content and every other project file, the metadata files, the backups and
\* the session log as they were.
C35_CopyRestoreFrame ==
    [][(/\ pc = "et_post" /\ frame'.restores # frame.restores
        /\ MetadataExists(store, frame.checkpoint_id)
        /\ "backup_path" \in DOMAIN store.meta[frame.checkpoint_id]
        /\ store.backups[store.meta[frame.checkpoint_id].backup_path] # NoFile)
           => LET b == store.backups[store.meta[frame.checkpoint_id].backup_path]
              IN  /\ \A p \in Paths :
                        store'.tree[p] = IF Top(p) \in TopEntries(b) THEN b[p]
                                         ELSE store.tree[p]
                  /\ store'.meta = store.meta
                  /\ store'.backups = store.backups
                  /\ store'.logFile = store.logFile]_vars

\* C36: the modified_files list of a checkpoint holds exactly the tracked
\* files that were modified when it was created, so the number
\* list_checkpoints shows is the number of those files: 0 in copy mode and
\* 0 for a git working tree without modified tracked files.
C36_ModifiedFilesCount ==
    (cp.fresh /\ MetadataExists(store, cp.id))
        => ModifiedCount(store, cp.id)
              = Cardinality({p \in Tracked : isGit /\ store.hasHead
                                              /\ cp.tree[p] # HeadTree[p]})

\* C37: create_checkpoint leaves every project file with the content it had
\* when the call was made, in git mode and in copy mode.
C37_CreateKeepsWorkingTree ==
    (last.op = "create" /\ cp.fresh /\ cp.id = last.id) => store.tree = cp.tree

\* C38: when execute_task returns a successful result, every file the
\* provider changed, created or deleted is in the working tree as the
\* provider left it, with and without checkpoint_after.
C38_SuccessKeepsProviderChanges ==
    [][(/\ pc = "et_post" /\ frame.caller = "prompt" /\ frame.result.success
        /\ pc' = "idle" /\ last'.op = "task" /\ last'.exc = "none")
           => \A p \in Paths :
                 store.tree[p] # frame.found[p] => store'.tree[p] = store.tree[p]]_vars

\* ============================================================ claims, batch
\* C39: in a batch run with checkpointing and auto_restore_on_failure, a
\* failed task at index 1 or later has had restore_checkpoint called with the
\* id of the batch's leading checkpoint, and that id is the checkpoint id in
\* the task's provider context and in its session log entry.
C39_LeadingCheckpointUndoesLaterTasks ==
    (/\ pc = "b_collect" /\ frame.task >= 1 /\ ~frame.result.success
     /\ Get(batch.given, "checkpoint", TRUE)
     /\ Get(batch.given, "auto_restore_on_failure", FALSE))
        => /\ frame.restores = 1
           /\ frame.restored = batch.initial_checkpoint
           /\ frame.context.checkpoint_id = batch.initial_checkpoint
           /\ sessionLog[Len(sessionLog)].checkpoint_id = batch.initial_checkpoint

\* ====================================================== claims, copy backend
\* C40: a copy-mode create_checkpoint succeeds and leaves a backup directory
\* that holds the project's files as the call found them and nothing else:
\* no file of an earlier snapshot, no metadata, no session log.
C40_CopySnapshotFresh ==
    (last.op = "create" /\ ~isGit)
        => /\ last.ok /\ last.exc = "none" /\ cp.fresh /\ cp.id = last.id
           /\ store.backups[cp.id] # NoFile
           /\ \A p \in Paths : store.backups[cp.id][p] = cp.tree[p]

====
